---- MODULE Spec2Model ----
(***************************************************************************)
(* Client-side multiplayer state reconciliation of cozy-quest-hd:          *)
(*   - NetworkManager (src/src/managers/NetworkManager.ts), the presence   *)
(*     synchronizer over the Playroom service;                             *)
(*   - CampfireScene (src/unnamed/part_001, second class of that name),    *)
(*     whose update() reconciles remote render actors with network state;  *)
(*   - Character (src/unnamed/part_002), the render actor.                 *)
(* One client (the local one) is modelled in full.  The Playroom service   *)
(* and the other clients are the environment: they deliver join and quit   *)
(* events and publish the remote participants' own state.                  *)
(*                                                                         *)
(* JavaScript optionals are encoded so that values stay comparable:        *)
(*   an optional record/tuple is a sequence of length 0 (undefined/null)   *)
(*   or 1; an unpublished action is the string "undefined"; an unpublished *)
(*   timestamp is -1.                                                      *)
(***************************************************************************)
EXTENDS Integers, Sequences, FiniteSets, TLC

VARIABLES
    coin,            \* progress of the service connect call insertCoin()
    joinSubs,        \* service join subscriptions installed by init()
    rpcHandlers,     \* 'action' RPC handlers installed by init()
    rpcOut,          \* 'action' RPC calls handed to the service for the other members
    svc,             \* per participant: the state fields held by the service
    quitHooks,       \* per participant: onQuit hooks installed on its state object
    nJoins,          \* join events delivered by the service so far
    hist,            \* whether a duplicate join / a departure has been delivered,
                     \* and whether the session has ended
    now,             \* Date.now()
    initialized,     \* NetworkManager.initialized
    players,         \* NetworkManager.players: keys in insertion order
    joinCallbacks,   \* NetworkManager.joinCallbacks
    leaveCallbacks,  \* NetworkManager.leaveCallbacks
    joinLog,         \* per handler: the ids it has been invoked with (join)
    leaveLog,        \* per handler: the ids it has been invoked with (leave)
    lastRead,        \* return value of the last getPlayerState / getAllPlayerStates
    scene,           \* whether CampfireScene.create() has run
    localPlayerId,   \* the id captured by setupMultiplayer
    localPlayer,     \* CampfireScene.localPlayer (0 or 1 Character)
    remotePlayers,   \* CampfireScene.remotePlayers: id -> Character
    liveChars,       \* per id: Character objects alive in the scene graph
    animsExist,      \* whether the character spritesheet animations exist
    lastReport,      \* per id: the activity reconciliation read at its last tick
    lastOp,          \* the operation that produced this state, with the calls it made
    awaiting,        \* init() calls suspended at await insertCoin(...)
    actionCallbacks, \* NetworkManager.actionCallbacks
    actionLog,       \* per handler: the (sender, action) pairs it has been invoked with
    rpcIn,           \* 'action' RPC calls of other members in flight to this client
    timeInFlight     \* per participant: 'actionTime' values set by its client that
                     \* the service has not delivered to this client yet

vars == <<coin, joinSubs, rpcHandlers, rpcOut, svc, quitHooks, nJoins, hist, now,
          initialized, players, joinCallbacks, leaveCallbacks, joinLog, leaveLog,
          lastRead, scene, localPlayerId, localPlayer, remotePlayers, liveChars,
          animsExist, lastReport, lastOp, awaiting, actionCallbacks, actionLog, rpcIn,
          timeInFlight>>

netVars == <<coin, joinSubs, rpcHandlers, rpcOut, quitHooks, nJoins, hist,
             initialized, players, joinCallbacks, leaveCallbacks, joinLog, leaveLog>>
sceneVars == <<scene, localPlayerId, localPlayer, remotePlayers, liveChars, lastReport>>
callVars == <<awaiting, actionCallbacks, actionLog, rpcIn, timeInFlight>>

----------------------------------------------------------------------------
(* Bounds of the model *)

\* join events the service delivers in one run
MaxJoins == 4
\* largest clock value
MaxTime == 1
\* handlers registered besides the scene's own
MaxProbes == 1
\* pending wave completions tracked per actor (saturating)
MaxPending == 2
\* broadcastAction calls in one run
MaxRpc == 1
\* init() calls awaiting the service at one time
MaxInits == 2
\* 'action' RPC calls of other members in one run
MaxRpcIn == 2

----------------------------------------------------------------------------
(* Program constants *)

IDLE == "idle"
WALKING == "walking"
WAVING == "waving"

WIDTH == 1280
HEIGHT == 720
GROUND_HEIGHT == 180
\* distance above which reconciliation starts a walk
JitterThreshold == 5

Local == "L"
Remotes == {"A", "B"}
Ids == {Local} \cup Remotes

\* the scene's own handler, and the other registered handlers
SceneH == 0
Probes == 1..MaxProbes
Handlers == {SceneH} \cup Probes

Undefined == "undefined"
NoTime == -1
NoPos == <<>>

\* lobby-chosen profile names; "A" chose none
ProfileName == [p \in Ids |-> IF p = "A" THEN Undefined ELSE "Name" \o p]

\* positions and activities passed to setLocalState by a direct caller
PublishPosSet == {<<10, 20>>, <<30, 40>>}
PublishActionSet == {IDLE, WALKING, WAVING}

\* positions the remote clients publish
RemotePosSet == {<<100, 500>>, <<103, 504>>, <<560, 540>>}
\* pointer positions of the local user
ClickSet == {<<100, 700>>, <<100, 300>>}

FreshState == [pos |-> NoPos, action |-> Undefined, actionTime |-> NoTime]

----------------------------------------------------------------------------
(* JavaScript Map and array helpers *)

Range(seq) == {seq[i] : i \in 1..Len(seq)}

RECURSIVE SeqWithout(_, _)
SeqWithout(seq, k) ==
    IF seq = <<>> THEN <<>>
    ELSE IF Head(seq) = k THEN SeqWithout(Tail(seq), k)
    ELSE <<Head(seq)>> \o SeqWithout(Tail(seq), k)

RECURSIVE Count(_, _)
Count(seq, k) ==
    IF seq = <<>> THEN 0
    ELSE (IF Head(seq) = k THEN 1 ELSE 0) + Count(Tail(seq), k)

\* Map.set on the key list: an existing key keeps its single entry
MapSetKey(keys, k) == IF k \in Range(keys) THEN keys ELSE Append(keys, k)

\* a delete that leaves the entry in place
MapDeleteKey_Keeps(keys, k) == keys

\* Map.delete on the key list
MapDeleteKey(keys, k) == SeqWithout(keys, k)

\* Map.set / Map.delete on an id -> Character map
MapPut(f, k, v) == [x \in (DOMAIN f) \cup {k} |-> IF x = k THEN v ELSE f[x]]
MapDel(f, k) == [x \in (DOMAIN f) \ {k} |-> f[x]]

Min(a, b) == IF a < b THEN a ELSE b
Max(a, b) == IF a > b THEN a ELSE b

\* a clamp without the lower limit
Clamp_NoLowerLimit(v, lo, hi) == Min(hi, v)

\* Phaser.Math.Clamp
Clamp(v, lo, hi) == Max(lo, Min(hi, v))

\* square of Phaser.Math.Distance.Between on integer coordinates
Dist2(x1, y1, x2, y2) == (x1 - x2) * (x1 - x2) + (y1 - y2) * (y1 - y2)

----------------------------------------------------------------------------
(* Character: the render actor *)

\* tween: "none" (moveTween is null), "stopped" (a stopped tween is still
\* referenced) or "playing"; wave: completions of playWave still pending;
\* anim: the animation the sprite plays ("none" without the spritesheet);
\* orphans: promises of walkTo / playWave whose tween was stopped or killed
\* before it completed (saturating)
NewCharacter(x, y) ==
    [x |-> x, y |-> y, tween |-> "none", tx |-> x, ty |-> y,
     action |-> IDLE, wave |-> 0,
     anim |-> IF animsExist THEN "idle" ELSE "none",
     orphans |-> 0]

isMoving(c) == c.tween = "playing"

getAction(c) == c.action

playIdle(c) ==
    [c EXCEPT !.action = IDLE, !.anim = IF animsExist THEN "idle" ELSE "none"]

walkTo(c, targetX, targetY) ==
    LET c1 == IF c.tween # "none"
              THEN [c EXCEPT !.tween = "stopped",
                             !.orphans = IF c.tween = "playing"
                                         THEN Min(@ + 1, MaxPending) ELSE @]
              ELSE c
    IN  IF Dist2(c.x, c.y, targetX, targetY) < 1
        THEN c1
        ELSE [c1 EXCEPT !.action = WALKING,
                        !.anim = IF animsExist THEN "walk" ELSE "none",
                        !.tween = "playing", !.tx = targetX, !.ty = targetY]

\* with the spritesheet a once-listener is added to those still pending; without
\* it killTweensOf(sprite) ends the earlier chain and one new chain runs
playWave(c) ==
    IF animsExist
    THEN [c EXCEPT !.action = WAVING, !.anim = "wave",
                   !.wave = Min(c.wave + 1, MaxPending)]
    ELSE [c EXCEPT !.action = WAVING, !.wave = 1,
                   !.orphans = IF c.wave > 0 THEN Min(@ + 1, MaxPending) ELSE @]

\* a completion that leaves the actor where the walk began
tweenComplete_KeepsPlace(c) == playIdle([c EXCEPT !.tween = "none"])

\* onComplete of the movement tween
tweenComplete(c) ==
    playIdle([c EXCEPT !.x = c.tx, !.y = c.ty, !.tween = "none"])

\* 'animationcomplete' of the wave animation / onComplete of the wave chain
waveComplete(c) == [playIdle(c) EXCEPT !.wave = 0]

waveCanComplete(c) == IF animsExist THEN c.anim = "wave" /\ c.wave > 0 ELSE c.wave > 0

----------------------------------------------------------------------------
(* NetworkManager: reads *)

Username(id) ==
    IF ProfileName[id] # Undefined THEN ProfileName[id] ELSE "Player" \o id

\* a read without the presence check: default-filled for any id
PlayerStateIn_NoPresenceCheck(keys, sv, clk, playerId) ==
    <<[id |-> playerId,
       username |-> Username(playerId),
       x |-> IF sv[playerId].pos = NoPos THEN 0 ELSE sv[playerId].pos[1],
       y |-> IF sv[playerId].pos = NoPos THEN 0 ELSE sv[playerId].pos[2],
       action |-> IF sv[playerId].action = Undefined THEN IDLE ELSE sv[playerId].action,
       actionTime |-> IF sv[playerId].actionTime = NoTime THEN clk
                      ELSE sv[playerId].actionTime]>>

\* getPlayerState over a given key list, service state and clock; the result is
\* a sequence: empty for null, else the one PlayerState
PlayerStateIn(keys, sv, clk, playerId) ==
    IF playerId \notin Range(keys) THEN <<>>
    ELSE LET ps == sv[playerId]
         IN <<[id |-> playerId,
               username |-> Username(playerId),
               x |-> IF ps.pos = NoPos THEN 0 ELSE ps.pos[1],
               y |-> IF ps.pos = NoPos THEN 0 ELSE ps.pos[2],
               action |-> IF ps.action = Undefined THEN IDLE ELSE ps.action,
               actionTime |-> IF ps.actionTime = NoTime THEN clk ELSE ps.actionTime]>>

getPlayerState(playerId) == PlayerStateIn(players, svc, now, playerId)

RECURSIVE AllStatesIn(_, _, _, _)
AllStatesIn(keys, rest, sv, clk) ==
    IF rest = <<>> THEN <<>>
    ELSE PlayerStateIn(keys, sv, clk, Head(rest)) \o AllStatesIn(keys, Tail(rest), sv, clk)

\* a snapshot loop that visits the map twice
getAllPlayerStates_Twice == AllStatesIn(players, players \o players, svc, now)

getAllPlayerStates == AllStatesIn(players, players, svc, now)

\* a read that stores the defaults it filled in
ReadLeaves_StoresDefaults(keys, sv, clk, playerId) ==
    IF playerId \notin Range(keys) THEN sv
    ELSE [sv EXCEPT ![playerId] =
            [pos |-> IF @.pos = NoPos THEN <<0, 0>> ELSE @.pos,
             action |-> IF @.action = Undefined THEN IDLE ELSE @.action,
             actionTime |-> IF @.actionTime = NoTime THEN clk ELSE @.actionTime]]

\* the service state after getPlayerState: it calls getProfile and getState only
ReadLeaves(keys, sv, clk, playerId) == sv

\* a local participant object that exists from the start
myPlayerDefined_Always == TRUE

\* myPlayer(): defined once insertCoin has resolved
myPlayerDefined == coin = "ok"

getLocalPlayerId == IF myPlayerDefined THEN <<Local>> ELSE <<>>

\* myPlayer()?.getProfile()?.name ?? null
getLocalPlayerName ==
    IF myPlayerDefined /\ ProfileName[Local] # Undefined
    THEN <<ProfileName[Local]>> ELSE <<>>

\* isHost() of the service; sessionHost: whether the session made this client
\* its host.  Without a session the service names no host.
isHost(sessionHost) == myPlayerDefined /\ sessionHost

\* a connection flag that is always up
isConnected_Always == TRUE

isConnected == initialized

\* a publish that sets the fields on every known player state
SetLocalStateIn_EveryPlayer(sv, clk, hasPos, x, y, hasAction, action) ==
    [p \in Ids |->
       IF p \in Range(players) \cup {Local}
       THEN [pos |-> IF hasPos THEN <<x, y>> ELSE sv[p].pos,
             action |-> IF hasAction THEN action ELSE sv[p].action,
             actionTime |-> IF hasAction THEN clk ELSE sv[p].actionTime]
       ELSE sv[p]]

\* a publish that stamps actionTime whatever it carries
SetLocalStateIn_StampsAlways(sv, clk, hasPos, x, y, hasAction, action) ==
    IF ~myPlayerDefined THEN sv
    ELSE [sv EXCEPT ![Local] =
            [pos |-> IF hasPos THEN <<x, y>> ELSE @.pos,
             action |-> IF hasAction THEN action ELSE @.action,
             actionTime |-> clk]]

\* setLocalState applied to the service state: the merged fields of myPlayer()
SetLocalStateIn(sv, clk, hasPos, x, y, hasAction, action) ==
    IF ~myPlayerDefined THEN sv
    ELSE LET s1 == IF hasPos THEN [sv EXCEPT ![Local].pos = <<x, y>>] ELSE sv
         IN IF hasAction
            THEN [s1 EXCEPT ![Local].action = action, ![Local].actionTime = clk]
            ELSE s1


----------------------------------------------------------------------------
(* CampfireScene: join and leave callbacks *)

groundY == HEIGHT - GROUND_HEIGHT

\* a spawn without the has() guard: a second Character replaces the first in
\* the map while the first stays in the scene graph
spawnRemotePlayer_NoGuard(rp, lc, playerId, state) ==
    LET x == IF state.x # 0 THEN state.x ELSE (WIDTH \div 2) + 80
        y == IF state.y # 0 THEN state.y ELSE groundY
    IN [rp |-> MapPut(rp, playerId, NewCharacter(x, y)),
        lc |-> [lc EXCEPT ![playerId] = @ + 1]]

\* spawnRemotePlayer on (remotePlayers, liveChars); state.x || default
spawnRemotePlayer(rp, lc, playerId, state) ==
    IF playerId \in DOMAIN rp THEN [rp |-> rp, lc |-> lc]
    ELSE LET x == IF state.x # 0 THEN state.x ELSE (WIDTH \div 2) + 80
             y == IF state.y # 0 THEN state.y ELSE groundY
         IN [rp |-> MapPut(rp, playerId, NewCharacter(x, y)),
             lc |-> [lc EXCEPT ![playerId] = @ + 1]]

\* removeRemotePlayer on (remotePlayers, liveChars)
removeRemotePlayer(rp, lc, playerId) ==
    IF playerId \in DOMAIN rp
    THEN [rp |-> MapDel(rp, playerId), lc |-> [lc EXCEPT ![playerId] = @ - 1]]
    ELSE [rp |-> rp, lc |-> lc]

\* a join callback that takes no id for the local one
IsSelf_Never(lpid, playerId) == FALSE

\* whether the scene's join callback takes the id for the local participant
IsSelf(lpid, playerId) == lpid = <<playerId>>

\* a join callback that skips the own id without publishing
SceneOnJoin_NoSelfSync(w, lpid, lp, playerId, state) ==
    IF IsSelf(lpid, playerId) THEN w
    ELSE [w EXCEPT !.rp = spawnRemotePlayer(w.rp, w.lc, playerId, state).rp,
                   !.lc = spawnRemotePlayer(w.rp, w.lc, playerId, state).lc]

\* the scene's join callback on the world w = [svc, rp, lc]; lpid and lp are
\* the captured local id and the local Character
SceneOnJoin(w, lpid, lp, playerId, state) ==
    IF IsSelf(lpid, playerId)
    THEN IF lp # <<>>
         THEN [w EXCEPT !.svc = SetLocalStateIn(w.svc, now, TRUE, lp[1].x, lp[1].y, TRUE, IDLE)]
         ELSE w
    ELSE LET r == spawnRemotePlayer(w.rp, w.lc, playerId, state)
         IN [w EXCEPT !.rp = r.rp, !.lc = r.lc]

\* a leave callback that keeps the actor
SceneOnLeave_KeepsActor(w, playerId) == w

\* the scene's leave callback
SceneOnLeave(w, playerId) ==
    LET r == removeRemotePlayer(w.rp, w.lc, playerId)
    IN [w EXCEPT !.rp = r.rp, !.lc = r.lc]

World == [svc |-> svc, rp |-> remotePlayers, lc |-> liveChars]

----------------------------------------------------------------------------
(* NetworkManager: handlers *)

\* a join that notifies no listener
NotifyAll_Nobody(log, cbs, playerId) == log

\* one pass over a callback list with one id: each registered handler's log
NotifyAll(log, cbs, playerId) ==
    [h \in Handlers |-> IF h \in Range(cbs) THEN Append(log[h], playerId) ELSE log[h]]

\* a replay loop that starts one entry late
ReplayKeys_SkipsFirst(keys) == IF keys = <<>> THEN keys ELSE Tail(keys)

\* the ids onPlayerJoin replays to a new callback: the keys of players
ReplayKeys(keys) == keys

\* the replay loop of onPlayerJoin for the scene's callback
RECURSIVE SceneReplay(_, _, _, _, _)
SceneReplay(w, keys, rest, lpid, lp) ==
    IF rest = <<>> THEN w
    ELSE LET st == PlayerStateIn(keys, w.svc, now, Head(rest))
             w1 == IF st # <<>> THEN SceneOnJoin(w, lpid, lp, Head(rest), st[1]) ELSE w
         IN SceneReplay(w1, keys, Tail(rest), lpid, lp)

\* the notify loops of n handlePlayerJoin calls for one join event
RECURSIVE NotifyTimes(_, _, _, _)
NotifyTimes(log, cbs, playerId, n) ==
    IF n <= 0 THEN log
    ELSE NotifyTimes(NotifyAll(log, cbs, playerId), cbs, playerId, n - 1)

\* the scene's join callback in n handlePlayerJoin calls for one join event
RECURSIVE SceneJoinTimes(_, _, _, _, _, _)
SceneJoinTimes(w, keys, lpid, lp, playerId, n) ==
    IF n <= 0 THEN w
    ELSE SceneJoinTimes(
            SceneOnJoin(w, lpid, lp, playerId, PlayerStateIn(keys, w.svc, now, playerId)[1]),
            keys, lpid, lp, playerId, n - 1)

\* the notify loop of one handlePlayerJoin: for each callback in order, the state
\* passed to it (read once before the loop) and what getPlayerState(playerId)
\* returns when it is invoked; the scene's callback may publish in between
RECURSIVE JoinViews(_, _, _, _, _, _, _)
JoinViews(cbs, w, keys, lpid, lp, playerId, state) ==
    IF cbs = <<>> THEN <<>>
    ELSE LET h == Head(cbs)
             w1 == IF h = SceneH THEN SceneOnJoin(w, lpid, lp, playerId, state[1]) ELSE w
         IN <<[h |-> h, passed |-> state,
               read |-> PlayerStateIn(keys, w.svc, now, playerId)]>>
            \o JoinViews(Tail(cbs), w1, keys, lpid, lp, playerId, state)

\* the onQuit hooks installed on a participant's state object that run at its quit
HooksToRun(playerId) == quitHooks[playerId]

RECURSIVE Repeat(_, _)
Repeat(x, n) == IF n <= 0 THEN <<>> ELSE <<x>> \o Repeat(x, n - 1)

\* walk, wave: the remote actors on which the operation called walkTo, playWave;
\* threw: whether it raised to its caller
Op(name, id) == [op |-> name, id |-> id, walk |-> {}, wave |-> {}, threw |-> FALSE]

----------------------------------------------------------------------------
(* Initial state: after construction of the singletons, before main() calls init *)

Init ==
    /\ coin = "none"
    /\ joinSubs = 0
    /\ rpcHandlers = 0
    /\ rpcOut = 0
    /\ svc = [p \in Ids |-> FreshState]
    /\ quitHooks = [p \in Ids |-> 0]
    /\ nJoins = 0
    /\ hist = [dup |-> FALSE, quit |-> FALSE, lost |-> FALSE]
    /\ now = 0
    /\ initialized = FALSE
    /\ players = <<>>
    /\ joinCallbacks = <<>>
    /\ leaveCallbacks = <<>>
    /\ joinLog = [h \in Handlers |-> <<>>]
    /\ leaveLog = [h \in Handlers |-> <<>>]
    /\ lastRead = [id |-> "", res |-> <<>>, src |-> FreshState]
    /\ scene = "none"
    /\ localPlayerId = <<>>
    /\ localPlayer = <<>>
    /\ remotePlayers = <<>>
    /\ liveChars = [p \in Ids |-> 0]
    /\ animsExist \in BOOLEAN
    /\ lastReport = [p \in Ids |-> "none"]
    /\ lastOp = Op("new", "")
    /\ awaiting = 0
    /\ actionCallbacks = <<>>
    /\ actionLog = [h \in Probes |-> <<>>]
    /\ rpcIn = <<>>
    /\ timeInFlight = [p \in Ids |-> <<>>]

----------------------------------------------------------------------------
(* NetworkManager.init *)

\* a guard that lets every call of init() through
InitProceeds_Always(inited) == TRUE

\* the guard of init(): if (this.initialized) return
InitProceeds(inited) == ~inited

\* init() up to its await: the guard on initialized, then insertCoin is called;
\* a call on an initialized manager returns at the guard
InitCall ==
    /\ initialized \/ awaiting < MaxInits
    /\ IF InitProceeds(initialized)
       THEN /\ awaiting' = awaiting + 1
            /\ coin' = IF coin = "ok" THEN coin ELSE "pending"
       ELSE UNCHANGED <<awaiting, coin>>
    /\ UNCHANGED <<actionCallbacks, actionLog, rpcIn, timeInFlight>>
    /\ lastOp' = Op("init", "")
    /\ UNCHANGED <<joinSubs, rpcHandlers, rpcOut, svc, quitHooks, nJoins, hist, now,
                   initialized, players, joinCallbacks, leaveCallbacks, joinLog,
                   leaveLog, lastRead, animsExist>>
    /\ UNCHANGED sceneVars

\* init() as main() calls it: no call overlaps a pending one or follows a
\* failed one
InitCallSequential == (initialized \/ coin = "none") /\ InitCall

\* insertCoin resolves: initialized is set, the RPC handler and the join
\* subscription are installed
InsertCoinResolve ==
    /\ awaiting > 0
    /\ awaiting' = awaiting - 1
    /\ coin' = "ok"
    /\ UNCHANGED <<actionCallbacks, actionLog, rpcIn, timeInFlight>>
    /\ initialized' = TRUE
    /\ rpcHandlers' = rpcHandlers + 1
    /\ joinSubs' = joinSubs + 1
    /\ lastOp' = Op("insertCoinResolved", "")
    /\ UNCHANGED <<rpcOut, svc, quitHooks, nJoins, hist, now, players, joinCallbacks,
                   leaveCallbacks, joinLog, leaveLog, lastRead, animsExist>>
    /\ UNCHANGED sceneVars

\* initialized set before the await
InitializedOnReject_SetEarly == TRUE

\* the value of initialized when insertCoin has thrown: its assignment is skipped
InitializedOnReject == initialized

\* whether init() lets the error of insertCoin escape: the catch block only logs
InitRethrows == FALSE

\* the statements of init() after `this.initialized = true` that call into the
\* service: RPC.register (l.91) and onPlayerJoin (l.98)
SetupSteps == {"register", "subscribe"}

\* insertCoin resolves and a later statement of the try block throws: initialized
\* is already set, the statements after the throwing one are skipped and the
\* catch block only logs
SetupThrows(step) ==
    /\ step \in SetupSteps
    /\ awaiting > 0
    /\ awaiting' = awaiting - 1
    /\ coin' = "ok"
    /\ UNCHANGED <<actionCallbacks, actionLog, rpcIn, timeInFlight>>
    /\ initialized' = TRUE
    /\ rpcHandlers' = IF step = "subscribe" THEN rpcHandlers + 1 ELSE rpcHandlers
    /\ joinSubs' = joinSubs
    /\ lastOp' = [Op("setupThrew", step) EXCEPT !.threw = InitRethrows]
    /\ UNCHANGED <<rpcOut, svc, quitHooks, nJoins, hist, now, players, joinCallbacks,
                   leaveCallbacks, joinLog, leaveLog, lastRead, animsExist>>
    /\ UNCHANGED sceneVars

\* insertCoin rejects: the catch block logs and init() returns normally
InsertCoinReject ==
    /\ awaiting > 0
    /\ awaiting' = awaiting - 1
    /\ coin' = IF coin = "ok" THEN coin ELSE IF awaiting > 1 THEN "pending" ELSE "failed"
    /\ UNCHANGED <<actionCallbacks, actionLog, rpcIn, timeInFlight>>
    /\ initialized' = InitializedOnReject
    /\ lastOp' = [Op("insertCoinRejected", "") EXCEPT !.threw = InitRethrows]
    /\ UNCHANGED <<joinSubs, rpcHandlers, rpcOut, svc, quitHooks, nJoins, hist, now,
                   players, joinCallbacks, leaveCallbacks, joinLog,
                   leaveLog, lastRead, animsExist>>
    /\ UNCHANGED sceneVars

----------------------------------------------------------------------------
(* Service events *)

\* states a remote participant may already have published when its join arrives
JoinStates == {FreshState, [pos |-> <<100, 500>>, action |-> IDLE, actionTime |-> 0]}

\* the service invokes every join subscription installed by init(), each of
\* which calls handlePlayerJoin(playerState).
\* A join for an id whose hooks are installed is a duplicate join.
SvcJoin(p, st0) ==
    /\ UNCHANGED callVars
    /\ joinSubs > 0
    /\ nJoins < MaxJoins
    /\ (p = Local \/ quitHooks[p] > 0) => st0 = svc[p]
    /\ LET keys1 == MapSetKey(players, p)
           sv1 == [svc EXCEPT ![p] = st0]
           w0 == [svc |-> sv1, rp |-> remotePlayers, lc |-> liveChars]
           w1 == IF SceneH \in Range(joinCallbacks)
                 THEN SceneJoinTimes(w0, keys1, localPlayerId, localPlayer, p, joinSubs)
                 ELSE w0
       IN /\ players' = keys1
          /\ joinLog' = NotifyTimes(joinLog, joinCallbacks, p, joinSubs)
          /\ svc' = w1.svc
          /\ remotePlayers' = w1.rp
          /\ liveChars' = w1.lc
    /\ quitHooks' = [quitHooks EXCEPT ![p] = @ + joinSubs]
    /\ nJoins' = nJoins + 1
    /\ hist' = [hist EXCEPT !.dup = @ \/ quitHooks[p] > 0]
    /\ lastOp' = Op("join", p)
    /\ UNCHANGED <<coin, joinSubs, rpcHandlers, rpcOut, now, initialized, joinCallbacks,
                   leaveCallbacks, leaveLog, lastRead, animsExist,
                   scene, localPlayerId, localPlayer, lastReport>>

\* a remote participant departs: every onQuit hook on its state object runs
SvcQuit(p) ==
    /\ UNCHANGED <<awaiting, actionCallbacks, actionLog, rpcIn>>
    /\ timeInFlight' = [timeInFlight EXCEPT ![p] = <<>>]
    /\ p \in Remotes
    /\ quitHooks[p] > 0
    /\ LET n == HooksToRun(p)
           w1 == IF SceneH \in Range(leaveCallbacks) THEN SceneOnLeave(World, p) ELSE World
       IN /\ players' = IF n > 0 THEN MapDeleteKey(players, p) ELSE players
          /\ leaveLog' = [h \in Handlers |->
                            IF h \in Range(leaveCallbacks)
                            THEN leaveLog[h] \o Repeat(p, n) ELSE leaveLog[h]]
          /\ remotePlayers' = IF n > 0 THEN w1.rp ELSE remotePlayers
          /\ liveChars' = IF n > 0 THEN w1.lc ELSE liveChars
    /\ quitHooks' = [quitHooks EXCEPT ![p] = 0]
    /\ svc' = [svc EXCEPT ![p] = FreshState]
    /\ hist' = [hist EXCEPT !.quit = TRUE]
    /\ lastReport' = [lastReport EXCEPT ![p] = "none"]
    /\ lastOp' = Op("quit", p)
    /\ UNCHANGED <<coin, joinSubs, rpcHandlers, rpcOut, nJoins, now, initialized,
                   joinCallbacks, leaveCallbacks, joinLog, lastRead, animsExist,
                   scene, localPlayerId, localPlayer>>

\* the client of remote participant p publishes its own state: a position
\* (moveLocalPlayer), a wave (performAction) or its self-sync (position and idle);
\* the keys it sets reach this client together
RemotePublish(p, kind, pos) ==
    /\ UNCHANGED callVars
    /\ p \in Remotes
    /\ quitHooks[p] > 0
    /\ timeInFlight[p] = <<>>
    /\ kind \in {"pos", "wave", "sync"}
    /\ svc' = [svc EXCEPT ![p] =
                 [pos |-> IF kind = "wave" THEN @.pos ELSE pos,
                  action |-> IF kind = "wave" THEN WAVING
                             ELSE IF kind = "sync" THEN IDLE ELSE @.action,
                  actionTime |-> IF kind = "pos" THEN @.actionTime ELSE now]]
    /\ svc'[p] # svc[p]
    /\ lastOp' = Op("remotePublish", p)
    /\ UNCHANGED <<now, lastRead, animsExist>>
    /\ UNCHANGED netVars
    /\ UNCHANGED sceneVars

\* the client of remote participant p calls setLocalState({action}): the value
\* of its first setState, key 'action', reaches this client; that of the second,
\* key 'actionTime', is still on its way
RemoteActionKey(p, action) ==
    /\ p \in Remotes
    /\ quitHooks[p] > 0
    /\ timeInFlight[p] = <<>>
    /\ svc' = [svc EXCEPT ![p].action = action]
    /\ timeInFlight' = [timeInFlight EXCEPT ![p] = <<now>>]
    /\ lastOp' = Op("remoteActionKey", p)
    /\ UNCHANGED <<awaiting, actionCallbacks, actionLog, rpcIn>>
    /\ UNCHANGED <<now, lastRead, animsExist>>
    /\ UNCHANGED netVars
    /\ UNCHANGED sceneVars

\* the 'actionTime' value of that call reaches this client
RemoteActionTimeKey(p) ==
    /\ timeInFlight[p] # <<>>
    /\ svc' = [svc EXCEPT ![p].actionTime = timeInFlight[p][1]]
    /\ timeInFlight' = [timeInFlight EXCEPT ![p] = <<>>]
    /\ lastOp' = Op("remoteActionTimeKey", p)
    /\ UNCHANGED <<awaiting, actionCallbacks, actionLog, rpcIn>>
    /\ UNCHANGED <<now, lastRead, animsExist>>
    /\ UNCHANGED netVars
    /\ UNCHANGED sceneVars

\* the session of this client ends (connection lost, room closed).  The manager
\* registers no handler for it: no field of the program changes
Disconnect ==
    /\ coin = "ok"
    /\ awaiting = 0
    /\ ~hist.lost
    /\ hist' = [hist EXCEPT !.lost = TRUE]
    /\ lastOp' = Op("disconnect", "")
    /\ UNCHANGED <<coin, joinSubs, rpcHandlers, rpcOut, quitHooks, nJoins, initialized,
                   players, joinCallbacks, leaveCallbacks, joinLog, leaveLog>>
    /\ UNCHANGED <<svc, now, lastRead, animsExist>>
    /\ UNCHANGED sceneVars
    /\ UNCHANGED callVars

\* time passes
ClockTick ==
    /\ UNCHANGED callVars
    /\ now < MaxTime
    /\ now' = now + 1
    /\ lastOp' = Op("clock", "")
    /\ UNCHANGED <<svc, lastRead, animsExist>>
    /\ UNCHANGED netVars
    /\ UNCHANGED sceneVars


----------------------------------------------------------------------------
(* NetworkManager: registration *)

\* onPlayerJoin(callback) for a handler other than the scene's: push, then replay
OnPlayerJoin(h) ==
    /\ UNCHANGED callVars
    /\ h \in Probes
    /\ h \notin Range(joinCallbacks)
    /\ joinCallbacks' = Append(joinCallbacks, h)
    /\ joinLog' = [joinLog EXCEPT ![h] = @ \o ReplayKeys(players)]
    /\ lastOp' = Op("onPlayerJoin", "")
    /\ UNCHANGED <<coin, joinSubs, rpcHandlers, rpcOut, svc, quitHooks, nJoins, hist, now,
                   initialized, players, leaveCallbacks, leaveLog, lastRead, animsExist>>
    /\ UNCHANGED sceneVars

\* onPlayerLeave(callback) for a handler other than the scene's: push only
OnPlayerLeave(h) ==
    /\ UNCHANGED callVars
    /\ h \in Probes
    /\ h \notin Range(leaveCallbacks)
    /\ leaveCallbacks' = Append(leaveCallbacks, h)
    /\ lastOp' = Op("onPlayerLeave", "")
    /\ UNCHANGED <<coin, joinSubs, rpcHandlers, rpcOut, svc, quitHooks, nJoins, hist, now,
                   initialized, players, joinCallbacks, joinLog, leaveLog, lastRead,
                   animsExist>>
    /\ UNCHANGED sceneVars

----------------------------------------------------------------------------
(* CampfireScene.create: createLocalPlayer and setupMultiplayer.  main() builds *)
(* the game only after init() has settled.                                      *)

SceneCreate ==
    /\ UNCHANGED callVars
    /\ scene = "none"
    /\ coin \in {"ok", "failed"}
    /\ scene' = "created"
    /\ LET lp == <<NewCharacter((WIDTH \div 2) - 80, groundY)>>
       IN /\ localPlayer' = lp
          /\ IF ~isConnected
             THEN UNCHANGED <<localPlayerId, joinCallbacks, leaveCallbacks, joinLog,
                              svc, remotePlayers, liveChars>>
             ELSE LET lpid == getLocalPlayerId
                      keys == ReplayKeys(players)
                      w1 == SceneReplay(World, players, keys, lpid, lp)
                  IN /\ localPlayerId' = lpid
                     /\ joinCallbacks' = Append(joinCallbacks, SceneH)
                     /\ joinLog' = [joinLog EXCEPT ![SceneH] = @ \o keys]
                     /\ leaveCallbacks' = Append(leaveCallbacks, SceneH)
                     /\ svc' = w1.svc
                     /\ remotePlayers' = w1.rp
                     /\ liveChars' = w1.lc
    /\ lastOp' = Op("sceneCreate", "")
    /\ UNCHANGED <<coin, joinSubs, rpcHandlers, rpcOut, quitHooks, nJoins, hist, now,
                   initialized, players, leaveLog, lastRead, animsExist, lastReport>>

----------------------------------------------------------------------------
(* Local input *)

\* moveLocalPlayer(targetX, targetY): walk and publish the clamped target
MoveLocalPlayer(targetX, targetY) ==
    /\ UNCHANGED callVars
    /\ localPlayer # <<>>
    /\ LET clampedY == Clamp(targetY, groundY - 60, groundY + 20)
       IN /\ localPlayer' = <<walkTo(localPlayer[1], targetX, clampedY)>>
          /\ svc' = SetLocalStateIn(svc, now, TRUE, targetX, clampedY, FALSE, IDLE)
    /\ lastOp' = Op("moveLocalPlayer", Local)
    /\ UNCHANGED <<now, lastRead, animsExist, scene, localPlayerId, remotePlayers,
                   liveChars, lastReport>>
    /\ UNCHANGED netVars

\* a guard that lets a wave through while the actor moves
ActionDropped_Never(c) == FALSE

\* the guard of performAction: if (... || this.localPlayer.isMoving()) return
ActionDropped(c) == isMoving(c)

\* performAction(WAVING): dropped while the local actor moves
PerformAction ==
    /\ UNCHANGED callVars
    /\ localPlayer # <<>>
    /\ IF ActionDropped(localPlayer[1])
       THEN UNCHANGED <<localPlayer, svc>>
       ELSE /\ localPlayer' = <<playWave(localPlayer[1])>>
            /\ svc' = SetLocalStateIn(svc, now, FALSE, 0, 0, TRUE, WAVING)
    /\ lastOp' = Op("performAction", Local)
    /\ UNCHANGED <<now, lastRead, animsExist, scene, localPlayerId, remotePlayers,
                   liveChars, lastReport>>
    /\ UNCHANGED netVars

----------------------------------------------------------------------------
(* NetworkManager: setLocalState called directly with a Partial<PlayerState> *)

\* what a partial carries: a position needs both x and y
PartialKind(hasX, hasY, hasAction) ==
    IF hasX /\ hasY THEN (IF hasAction THEN "both" ELSE "pos")
    ELSE IF hasAction THEN "action"
    ELSE "none"

SetLocalState(hasX, hasY, x, y, hasAction, action) ==
    /\ UNCHANGED callVars
    /\ svc' = SetLocalStateIn(svc, now, hasX /\ hasY, x, y, hasAction, action)
    /\ lastOp' = Op("setLocalState", PartialKind(hasX, hasY, hasAction))
    /\ UNCHANGED <<now, lastRead, animsExist>>
    /\ UNCHANGED netVars
    /\ UNCHANGED sceneVars

----------------------------------------------------------------------------
(* NetworkManager: public reads *)

GetPlayerState(id) ==
    /\ UNCHANGED callVars
    /\ lastRead' = [id |-> id, res |-> getPlayerState(id), src |-> svc[id]]
    /\ svc' = ReadLeaves(players, svc, now, id)
    /\ lastOp' = Op("getPlayerState", id)
    /\ UNCHANGED <<now, animsExist>>
    /\ UNCHANGED netVars
    /\ UNCHANGED sceneVars

AccessorNames == {"getLocalPlayerId", "getLocalPlayerName", "isHost", "isConnected"}

\* one of the four session accessors is called; its return value goes to lastRead
Accessor(name, sessionHost) ==
    /\ UNCHANGED callVars
    /\ name \in AccessorNames
    /\ lastRead' = [id |-> name,
                    res |-> CASE name = "getLocalPlayerId" -> getLocalPlayerId
                              [] name = "getLocalPlayerName" -> getLocalPlayerName
                              [] name = "isHost" -> <<isHost(sessionHost)>>
                              [] OTHER -> <<isConnected>>,
                    src |-> FreshState]
    /\ lastOp' = Op(name, "")
    /\ UNCHANGED <<svc, now, animsExist>>
    /\ UNCHANGED netVars
    /\ UNCHANGED sceneVars

GetAllPlayerStates ==
    /\ UNCHANGED callVars
    /\ lastRead' = [id |-> "*", res |-> getAllPlayerStates, src |-> FreshState]
    /\ lastOp' = Op("getAllPlayerStates", "")
    /\ UNCHANGED <<svc, now, animsExist>>
    /\ UNCHANGED netVars
    /\ UNCHANGED sceneVars

\* a broadcast without the guard on initialized
RpcCallsFor_Always(inited) == 1

\* RPC.call invocations of one broadcastAction: none when not initialized
RpcCallsFor(inited) == IF inited THEN 1 ELSE 0

\* broadcastAction(action): one RPC call to the other members when connected;
\* RPC.Mode.OTHERS puts nothing in flight to this client
BroadcastAction ==
    /\ UNCHANGED callVars
    /\ rpcOut < MaxRpc
    /\ rpcOut' = rpcOut + RpcCallsFor(initialized)
    /\ lastOp' = Op("broadcastAction", Local)
    /\ UNCHANGED <<coin, joinSubs, rpcHandlers, svc, quitHooks, nJoins, hist, now,
                   initialized, players, joinCallbacks, leaveCallbacks, joinLog,
                   leaveLog, lastRead, animsExist>>
    /\ UNCHANGED sceneVars

\* onRemoteAction(callback): push
OnRemoteAction(h) ==
    /\ h \in Probes
    /\ h \notin Range(actionCallbacks)
    /\ actionCallbacks' = Append(actionCallbacks, h)
    /\ lastOp' = Op("onRemoteAction", "")
    /\ UNCHANGED <<awaiting, actionLog, rpcIn, timeInFlight>>
    /\ UNCHANGED <<svc, now, lastRead, animsExist>>
    /\ UNCHANGED netVars
    /\ UNCHANGED sceneVars

\* the longest log of an action handler
RpcSeen ==
    LET ls == {Len(actionLog[h]) : h \in Probes}
    IN CHOOSE m \in ls : \A k \in ls : k <= m

\* the client of member p calls broadcastAction(action): the service takes one
\* call for this client, a member of the session
RemoteBroadcast(p, action) ==
    /\ p \in Remotes
    /\ quitHooks[p] > 0
    /\ coin = "ok"
    /\ Len(rpcIn) + RpcSeen < MaxRpcIn
    /\ rpcIn' = Append(rpcIn, <<p, action>>)
    /\ lastOp' = Op("remoteBroadcast", p)
    /\ UNCHANGED <<awaiting, actionCallbacks, actionLog, timeInFlight>>
    /\ UNCHANGED <<svc, now, lastRead, animsExist>>
    /\ UNCHANGED netVars
    /\ UNCHANGED sceneVars

\* one run of the handler given to RPC.register: every action callback once
ActionHandlerRun(log, cbs, msg) ==
    [h \in Probes |-> IF h \in Range(cbs) THEN Append(log[h], msg) ELSE log[h]]

RECURSIVE ActionHandlerRuns(_, _, _, _)
ActionHandlerRuns(log, cbs, msg, n) ==
    IF n <= 0 THEN log
    ELSE ActionHandlerRuns(ActionHandlerRun(log, cbs, msg), cbs, msg, n - 1)

\* the service delivers the oldest call in flight: each registered 'action'
\* handler runs
RpcDeliver ==
    /\ rpcIn # <<>>
    /\ rpcIn' = Tail(rpcIn)
    /\ actionLog' = ActionHandlerRuns(actionLog, actionCallbacks, Head(rpcIn), rpcHandlers)
    /\ lastOp' = Op("rpcDeliver", Head(rpcIn)[1])
    /\ UNCHANGED <<awaiting, actionCallbacks, timeInFlight>>
    /\ UNCHANGED <<svc, now, lastRead, animsExist>>
    /\ UNCHANGED netVars
    /\ UNCHANGED sceneVars

\* the service loses the oldest call in flight: delivery is best effort
RpcDrop ==
    /\ rpcIn # <<>>
    /\ rpcIn' = Tail(rpcIn)
    /\ lastOp' = Op("rpcDrop", Head(rpcIn)[1])
    /\ UNCHANGED <<awaiting, actionCallbacks, actionLog, timeInFlight>>
    /\ UNCHANGED <<svc, now, lastRead, animsExist>>
    /\ UNCHANGED netVars
    /\ UNCHANGED sceneVars

----------------------------------------------------------------------------
(* Reconciliation: CampfireScene.update -> updateRemotePlayers *)

\* a guard that takes any difference for significant
SignificantDistance_NoThreshold(c, state) ==
    Dist2(c.x, c.y, state.x, state.y) > 0

\* the anti-jitter guard: only a significant distance starts a walk
SignificantDistance(c, state) ==
    Dist2(c.x, c.y, state.x, state.y) > JitterThreshold * JitterThreshold

\* a position branch without the isMoving guard
WalkWanted_IgnoresMoving(c, state) == SignificantDistance(c, state)

\* whether the position branch calls walkTo on the actor
WalkWanted(c, state) == ~isMoving(c) /\ SignificantDistance(c, state)

\* whether the action branch calls playWave on the actor
WaveWanted(c, state) == state.action = WAVING /\ getAction(c) # WAVING

\* the loop body for one remote actor
ReconcileOne(c, state) ==
    LET c1 == IF WalkWanted(c, state) THEN walkTo(c, state.x, state.y) ELSE c
    IN IF WaveWanted(c1, state) THEN playWave(c1) ELSE c1

UpdateRemotePlayers ==
    /\ UNCHANGED callVars
    /\ scene = "created"
    /\ IF ~isConnected
       THEN /\ UNCHANGED <<remotePlayers, lastReport>>
            /\ lastOp' = Op("update", "")
       ELSE LET seen == {p \in DOMAIN remotePlayers : getPlayerState(p) # <<>>}
                st(p) == getPlayerState(p)[1]
            IN /\ remotePlayers' =
                     [p \in DOMAIN remotePlayers |->
                        IF p \in seen THEN ReconcileOne(remotePlayers[p], st(p))
                        ELSE remotePlayers[p]]
               /\ lastReport' = [p \in Ids |->
                                   IF p \in seen THEN st(p).action ELSE lastReport[p]]
               /\ lastOp' = [op |-> "update", id |-> "", threw |-> FALSE,
                             walk |-> {p \in seen : WalkWanted(remotePlayers[p], st(p))},
                             wave |-> {p \in seen :
                                         LET c == remotePlayers[p]
                                             c1 == IF WalkWanted(c, st(p))
                                                   THEN walkTo(c, st(p).x, st(p).y) ELSE c
                                         IN WaveWanted(c1, st(p))}]
    /\ UNCHANGED <<svc, now, lastRead, animsExist, scene, localPlayerId, localPlayer,
                   liveChars>>
    /\ UNCHANGED netVars

----------------------------------------------------------------------------
(* Completions delivered by the render loop *)

\* the movement tween of an actor completes (who = Local: the local actor)
TweenComplete(who) ==
    /\ UNCHANGED callVars
    /\ IF who = Local
       THEN /\ localPlayer # <<>>
            /\ isMoving(localPlayer[1])
            /\ localPlayer' = <<tweenComplete(localPlayer[1])>>
            /\ UNCHANGED remotePlayers
       ELSE /\ who \in DOMAIN remotePlayers
            /\ isMoving(remotePlayers[who])
            /\ remotePlayers' = [remotePlayers EXCEPT ![who] = tweenComplete(@)]
            /\ UNCHANGED localPlayer
    /\ lastOp' = Op("tweenComplete", who)
    /\ UNCHANGED <<svc, now, lastRead, animsExist, scene, localPlayerId, liveChars,
                   lastReport>>
    /\ UNCHANGED netVars

\* the wave of an actor completes
WaveComplete(who) ==
    /\ UNCHANGED callVars
    /\ IF who = Local
       THEN /\ localPlayer # <<>>
            /\ waveCanComplete(localPlayer[1])
            /\ localPlayer' = <<waveComplete(localPlayer[1])>>
            /\ UNCHANGED remotePlayers
       ELSE /\ who \in DOMAIN remotePlayers
            /\ waveCanComplete(remotePlayers[who])
            /\ remotePlayers' = [remotePlayers EXCEPT ![who] = waveComplete(@)]
            /\ UNCHANGED localPlayer
    /\ lastOp' = Op("waveComplete", who)
    /\ UNCHANGED <<svc, now, lastRead, animsExist, scene, localPlayerId, liveChars,
                   lastReport>>
    /\ UNCHANGED netVars

----------------------------------------------------------------------------
(* Specification *)

Next ==
    \/ InitCall
    \/ InsertCoinResolve
    \/ InsertCoinReject
    \/ \E step \in SetupSteps : SetupThrows(step)
    \/ \E p \in Ids : \E st0 \in JoinStates \cup {svc[p]} : SvcJoin(p, st0)
    \/ \E p \in Remotes : SvcQuit(p)
    \/ \E p \in Remotes : \E kind \in {"pos", "wave", "sync"} :
          \E pos \in RemotePosSet : RemotePublish(p, kind, pos)
    \/ \E p \in Remotes : \E action \in {IDLE, WAVING} : RemoteActionKey(p, action)
    \/ \E p \in Remotes : RemoteActionTimeKey(p)
    \/ Disconnect
    \/ ClockTick
    \/ \E h \in Probes : OnPlayerJoin(h)
    \/ \E h \in Probes : OnPlayerLeave(h)
    \/ SceneCreate
    \/ \E c \in ClickSet : MoveLocalPlayer(c[1], c[2])
    \/ PerformAction
    \/ \E hasX, hasY, hasAction \in BOOLEAN : \E pos \in PublishPosSet :
          \E action \in PublishActionSet :
             SetLocalState(hasX, hasY, pos[1], pos[2], hasAction, action)
    \/ \E id \in Ids : GetPlayerState(id)
    \/ GetAllPlayerStates
    \/ \E name \in AccessorNames : \E sessionHost \in BOOLEAN : Accessor(name, sessionHost)
    \/ BroadcastAction
    \/ \E h \in Probes : OnRemoteAction(h)
    \/ \E p \in Remotes : \E action \in PublishActionSet : RemoteBroadcast(p, action)
    \/ RpcDeliver
    \/ RpcDrop
    \/ UpdateRemotePlayers
    \/ \E who \in Ids : TweenComplete(who)
    \/ \E who \in Ids : WaveComplete(who)

Spec == Init /\ [][Next]_vars

\* Membership and handlers: the three participants join, rejoin and depart and
\* handlers are registered at any time; no remote client publishes after its
\* join, no local input, no reconciliation
InitNet == Init /\ animsExist

NextNet ==
    \/ InitCallSequential
    \/ InsertCoinResolve
    \/ InsertCoinReject
    \/ \E p \in Ids : \E st0 \in JoinStates \cup {svc[p]} : SvcJoin(p, st0)
    \/ \E p \in Remotes : SvcQuit(p)
    \/ \E h \in Probes : OnPlayerJoin(h)
    \/ \E h \in Probes : OnPlayerLeave(h)
    \/ SceneCreate

SpecNet == InitNet /\ [][NextNet]_vars

\* Publishing and reading: the local participant and one remote one, each with
\* one membership; every public operation of the manager is called
NextRead ==
    \/ InitCallSequential
    \/ InsertCoinResolve
    \/ InsertCoinReject
    \/ \E p \in {Local, "A"} : \E st0 \in {FreshState} :
          quitHooks[p] = 0 /\ ~hist.quit /\ SvcJoin(p, st0)
    \/ SvcQuit("A")
    \/ \E kind \in {"pos", "wave", "sync"} : RemotePublish("A", kind, <<100, 500>>)
    \/ ClockTick
    \/ SceneCreate
    \/ MoveLocalPlayer(100, 700)
    \/ PerformAction
    \/ \E id \in {Local, "A"} : GetPlayerState(id)
    \/ GetAllPlayerStates
    \/ BroadcastAction

SpecRead == InitNet /\ [][NextRead]_vars

\* Reconciliation: the local participant and one remote one, each with one
\* membership; the remote client publishes, the render loop ticks and delivers
\* completions
NextScene ==
    \/ InitCallSequential
    \/ InsertCoinResolve
    \/ \E p \in {Local, "A"} : \E st0 \in JoinStates :
          quitHooks[p] = 0 /\ ~hist.quit /\ (p = Local => st0 = svc[p]) /\ SvcJoin(p, st0)
    \/ SvcQuit("A")
    \/ \E kind \in {"pos", "wave", "sync"} :
          \E pos \in RemotePosSet : RemotePublish("A", kind, pos)
    \/ SceneCreate
    \/ UpdateRemotePlayers
    \/ TweenComplete("A")
    \/ WaveComplete("A")

SpecScene == Init /\ [][NextScene]_vars

\* Publishing: setLocalState is called with every kind of partial at any time,
\* before, during and after init(); the local participant and "A" join once
NextPublish ==
    \/ InitCallSequential
    \/ InsertCoinResolve
    \/ InsertCoinReject
    \/ \E p \in {Local, "A"} : quitHooks[p] = 0 /\ SvcJoin(p, FreshState)
    \/ ClockTick
    \/ \E hasX, hasY, hasAction \in BOOLEAN : \E pos \in PublishPosSet :
          \E action \in PublishActionSet :
             SetLocalState(hasX, hasY, pos[1], pos[2], hasAction, action)
    \/ GetPlayerState(Local)

SpecPublish == InitNet /\ [][NextPublish]_vars

\* Convergence: a fresh session of the local participant and "A"; "A" publishes
\* the position (10,20) once and stays; the game loop keeps calling update() and
\* a playing tween completes
NextConv ==
    \/ InitCallSequential
    \/ InsertCoinResolve
    \/ \E p \in {Local, "A"} : quitHooks[p] = 0 /\ SvcJoin(p, FreshState)
    \/ svc["A"].pos = NoPos /\ RemotePublish("A", "pos", <<10, 20>>)
    \/ ClockTick
    \/ SceneCreate
    \/ GetPlayerState("A")
    \/ UpdateRemotePlayers
    \/ TweenComplete("A")

SpecConv ==
    /\ Init
    /\ [][NextConv]_vars
    /\ WF_vars(SceneCreate)
    /\ WF_vars(UpdateRemotePlayers)
    /\ WF_vars(TweenComplete("A"))

\* Session accessors: called at any time, before, during and after init()
NextAccess ==
    \/ InitCallSequential
    \/ InsertCoinResolve
    \/ InsertCoinReject
    \/ \E p \in {Local, "A"} : quitHooks[p] = 0 /\ SvcJoin(p, svc[p])
    \/ SceneCreate
    \/ \E name \in AccessorNames : \E sessionHost \in BOOLEAN : Accessor(name, sessionHost)

SpecAccess == InitNet /\ [][NextAccess]_vars

\* Action broadcast: this client and "A" call broadcastAction; the service
\* delivers or loses the calls of "A"; handlers are registered at any time
NextRpc ==
    \/ InitCallSequential
    \/ InsertCoinResolve
    \/ InsertCoinReject
    \/ \E p \in {Local, "A"} : quitHooks[p] = 0 /\ ~hist.quit /\ SvcJoin(p, svc[p])
    \/ SvcQuit("A")
    \/ \E h \in Probes : OnRemoteAction(h)
    \/ BroadcastAction
    \/ \E action \in {WAVING, IDLE} : RemoteBroadcast("A", action)
    \/ RpcDeliver
    \/ RpcDrop

SpecRpc == InitNet /\ [][NextRpc]_vars

\* Reconnect: the session ends at some time and delivers nothing afterwards;
\* init() is called again
NextReconnect ==
    \/ InitCallSequential
    \/ InsertCoinResolve
    \/ InsertCoinReject
    \/ \E p \in Ids : \E st0 \in JoinStates \cup {svc[p]} : ~hist.lost /\ SvcJoin(p, st0)
    \/ \E p \in Remotes : ~hist.lost /\ SvcQuit(p)
    \/ Disconnect
    \/ SceneCreate
    \/ GetAllPlayerStates

SpecReconnect == InitNet /\ [][NextReconnect]_vars

\* Self-sync: the service fires the join of the local participant at connect
\* time, so it is in the membership map when main() has built the scene; remote
\* participants join, rejoin and depart at any time and the user walks
NextSelf ==
    \/ InitCallSequential
    \/ InsertCoinResolve
    \/ InsertCoinReject
    \/ \E p \in {Local, "A"} : \E st0 \in JoinStates \cup {svc[p]} : SvcJoin(p, st0)
    \/ SvcQuit("A")
    \/ (coin = "ok" => Local \in Range(players)) /\ SceneCreate
    \/ \E c \in ClickSet : MoveLocalPlayer(c[1], c[2])
    \/ TweenComplete(Local)

SpecSelf == InitNet /\ [][NextSelf]_vars

\* Overlapping connects: init() is called while an earlier call still awaits
\* the service, or again after a failure
NextOverlap ==
    \/ InitCall
    \/ InsertCoinResolve
    \/ InsertCoinReject
    \/ \E p \in {Local, "A"} : \E st0 \in JoinStates \cup {svc[p]} : SvcJoin(p, st0)
    \/ SvcQuit("A")
    \/ \E h \in Probes : OnPlayerJoin(h)
    \/ \E h \in Probes : OnPlayerLeave(h)
    \/ SceneCreate

SpecOverlap == InitNet /\ [][NextOverlap]_vars

\* Connect with a failing setup: a statement of init() after the connect call
\* may throw; the accessors are called at any time
NextSetup ==
    \/ InitCallSequential
    \/ InsertCoinResolve
    \/ InsertCoinReject
    \/ \E step \in SetupSteps : SetupThrows(step)
    \/ \E p \in {Local, "A"} : \E st0 \in JoinStates \cup {svc[p]} : SvcJoin(p, st0)
    \/ SvcQuit("A")
    \/ \E h \in Probes : OnPlayerJoin(h)
    \/ SceneCreate
    \/ \E name \in AccessorNames : \E sessionHost \in BOOLEAN : Accessor(name, sessionHost)

SpecSetup == InitNet /\ [][NextSetup]_vars

\* Key-by-key delivery: "A" publishes positions and activities; the service
\* delivers each key it set on its own; this client reads at any time
NextKeys ==
    \/ InitCallSequential
    \/ InsertCoinResolve
    \/ \E p \in {Local, "A"} : \E st0 \in JoinStates :
          quitHooks[p] = 0 /\ (p = Local => st0 = svc[p]) /\ SvcJoin(p, st0)
    \/ RemotePublish("A", "pos", <<100, 500>>)
    \/ \E action \in {IDLE, WAVING} : RemoteActionKey("A", action)
    \/ RemoteActionTimeKey("A")
    \/ ClockTick
    \/ \E id \in {Local, "A"} : GetPlayerState(id)

SpecKeys == InitNet /\ [][NextKeys]_vars

\* The local actor: the user clicks and waves at any time; a playing tween and a
\* running wave complete
NextActor ==
    \/ InitCallSequential
    \/ InsertCoinResolve
    \/ InsertCoinReject
    \/ quitHooks[Local] = 0 /\ SvcJoin(Local, svc[Local])
    \/ SceneCreate
    \/ \E c \in ClickSet : MoveLocalPlayer(c[1], c[2])
    \/ PerformAction
    \/ TweenComplete(Local)
    \/ WaveComplete(Local)

SpecActor ==
    /\ Init
    /\ [][NextActor]_vars
    /\ WF_vars(TweenComplete(Local))
    /\ WF_vars(WaveComplete(Local))

----------------------------------------------------------------------------
(* Properties *)

\* participants whose join the service has delivered and who have not departed
Present == {p \in Ids : quitHooks[p] > 0}

\* a step in which handler h is registered through onPlayerJoin
RegistersJoin(h) == h \notin Range(joinCallbacks) /\ h \in Range(joinCallbacks')

\* a step in which the service reports the departure of p
Departs(p) == quitHooks[p] > 0 /\ quitHooks'[p] = 0

\* C1: a handler registered late through onPlayerJoin is invoked, inside the
\* registration call, exactly once for each of the N participants present and
\* for nobody else, and no join is delivered within that call.
C1_ReplayOnSubscribe ==
    [][\A h \in Handlers :
         RegistersJoin(h) =>
            /\ joinLog[h] = <<>>
            /\ Len(joinLog'[h]) = Cardinality(Present)
            /\ \A p \in Present : Count(joinLog'[h], p) = 1
            /\ quitHooks' = quitHooks]_vars

C1_Witness ==
    /\ lastOp.op = "onPlayerJoin"
    /\ Cardinality(Present) >= 2
    /\ Len(joinLog[1]) = Cardinality(Present)

\* C2: once the departure of a participant has been reported and until it joins
\* again, getPlayerState of its id is null and no element of getAllPlayerStates
\* carries its id.
C2_LeaveCleanup ==
    \A p \in Remotes :
       quitHooks[p] = 0 =>
          /\ getPlayerState(p) = <<>>
          /\ \A i \in 1..Len(getAllPlayerStates) : getAllPlayerStates[i].id # p

C2_Witness ==
    /\ lastOp.op = "quit"
    /\ lastOp.id = "A"
    /\ quitHooks["A"] = 0
    /\ Len(players) >= 2

\* C3: in a reconciliation tick the wave is triggered on a remote actor exactly
\* when the reported activity has turned to waving since the previous tick:
\* a report of waving that repeats one already seen never triggers it again.
C3_EdgeTriggered ==
    [][\A p \in Remotes :
         (lastOp'.op = "update" /\ p \in DOMAIN remotePlayers /\ getPlayerState(p) # <<>>)
            => (p \in lastOp'.wave
                   <=> (getPlayerState(p)[1].action = WAVING /\ lastReport[p] # WAVING))]_vars

\* C4: a walk starts on a remote actor only in a reconciliation tick and only if
\* the reported position is farther than the threshold from the rendered one;
\* an idle actor standing on the reported position stays idle where it is.
C4_AntiJitter ==
    [][\A p \in (DOMAIN remotePlayers) \cap (DOMAIN remotePlayers') :
         LET c == remotePlayers[p]
             st == getPlayerState(p)
             d2 == Dist2(c.x, c.y, st[1].x, st[1].y)
         IN /\ (~isMoving(c) /\ isMoving(remotePlayers'[p]))
                  => /\ lastOp'.op = "update"
                     /\ st # <<>>
                     /\ d2 > JitterThreshold * JitterThreshold
            /\ (lastOp'.op = "update" /\ p \in lastOp'.walk)
                  => (st # <<>> /\ d2 > JitterThreshold * JitterThreshold)
            /\ (lastOp'.op = "update" /\ st # <<>> /\ ~isMoving(c) /\ d2 = 0)
                  => /\ ~isMoving(remotePlayers'[p])
                     /\ remotePlayers'[p].x = c.x
                     /\ remotePlayers'[p].y = c.y]_vars

C4_Witness ==
    /\ lastOp.op = "update"
    /\ lastOp.walk = {}
    /\ \E p \in DOMAIN remotePlayers :
          /\ getPlayerState(p) # <<>>
          /\ ~isMoving(remotePlayers[p])
          /\ Dist2(remotePlayers[p].x, remotePlayers[p].y,
                   getPlayerState(p)[1].x, getPlayerState(p)[1].y)
                = JitterThreshold * JitterThreshold

\* C5: the published fields of a participant change only through a publish of
\* its own client (for the local one: moveLocalPlayer, performAction and the
\* self-sync of the scene's join callback) or with the start and end of its own
\* membership; no operation of the local manager writes a remote participant's
\* fields.
C5_SingleWriter ==
    [][\A p \in Ids :
         svc'[p] # svc[p] =>
            IF p = Local
            THEN \/ lastOp'.op \in {"moveLocalPlayer", "performAction", "sceneCreate",
                                   "setLocalState"}
                 \/ (lastOp'.op = "join" /\ lastOp'.id = Local)
            ELSE /\ lastOp'.op \in {"remotePublish", "join", "quit"}
                 /\ lastOp'.id = p]_vars

C5_Witness ==
    /\ lastOp.op = "moveLocalPlayer"
    /\ "A" \in Range(players)
    /\ svc["A"].pos # NoPos
    /\ svc[Local].pos # NoPos
    /\ svc[Local].pos # svc["A"].pos
    /\ lastRead.id = "A"
    /\ lastRead.res # <<>>
    /\ rpcOut > 0

\* C6: getPlayerState on a participant that has published a position and no
\* activity returns activity idle and a timestamp, and a second call with no
\* publish in between returns the same result in every field, whatever the clock.
C6_DefaultFillDeterministic ==
    [][\A id \in Ids :
         (/\ lastOp'.op = "getPlayerState"
          /\ lastRead'.id = id
          /\ lastRead'.res # <<>>
          /\ svc[id].pos # NoPos
          /\ svc[id].action = Undefined)
            => /\ lastRead'.res[1].action = IDLE
               /\ lastRead'.res[1].actionTime # NoTime
               /\ (lastRead.id = id /\ lastRead.res # <<>> /\ lastRead.src = svc[id])
                     => lastRead'.res = lastRead.res]_vars

\* C7: after the connect call of the service has failed, init has returned
\* without raising, isConnected is false, getAllPlayerStates is empty and
\* setLocalState publishes nothing and raises nothing.
C7_ConnectFailureDegrades ==
    coin = "failed" =>
       /\ ~isConnected
       /\ getAllPlayerStates = <<>>
       /\ ~lastOp.threw
       /\ svc = [p \in Ids |-> FreshState]

C7_Witness ==
    /\ coin = "failed"
    /\ scene = "created"
    /\ lastOp.op = "moveLocalPlayer"
    /\ isMoving(localPlayer[1])

\* C8: with no duplicate join and no departure, every registered join handler
\* has been invoked exactly once for each participant whose join the service
\* has delivered, the local one included, and never for anybody else.
C8_NoMissedNoDuplicatedJoin ==
    (~hist.dup /\ ~hist.quit) =>
       \A h \in Range(joinCallbacks) : \A p \in Ids :
          Count(joinLog[h], p) = IF p \in Present THEN 1 ELSE 0

C8_Witness ==
    /\ ~hist.dup
    /\ ~hist.quit
    /\ lastOp.op = "join"
    /\ Present = Ids
    /\ \A h \in Handlers : h \in Range(joinCallbacks) /\ Len(joinLog[h]) = 3

\* C9: a handler registered through onPlayerLeave is invoked exactly once at
\* each departure reported after its registration and at no other step.
C9_LeaveOncePerDeparture ==
    [][\A h \in Handlers :
         IF h \in Range(leaveCallbacks) /\ (\E p \in Ids : Departs(p))
         THEN \E p \in Ids : Departs(p) /\ leaveLog'[h] = Append(leaveLog[h], p)
         ELSE leaveLog'[h] = leaveLog[h]]_vars

\* C10: whatever joins the service reports, duplicates included, the membership
\* map holds at most one entry per id and the scene at most one Character per id.
C10_DuplicateJoinIdempotent ==
    \A p \in Ids :
       /\ Count(players, p) <= 1
       /\ liveChars[p] <= 1
       /\ (p \in DOMAIN remotePlayers <=> liveChars[p] = 1)

C10_Witness ==
    /\ hist.dup
    /\ lastOp.op = "join"
    /\ lastOp.id = "A"
    /\ quitHooks["A"] = 2
    /\ "A" \in DOMAIN remotePlayers
    /\ Count(players, "A") = 1

\* C11: in a reconciliation tick a remote actor that is mid-movement gets no
\* walkTo, whatever position is reported: its tween keeps playing towards the
\* same target from the same place.
C11_MidTransitionSkip ==
    [][\A p \in DOMAIN remotePlayers :
         (lastOp'.op = "update" /\ isMoving(remotePlayers[p]))
            => /\ p \notin lastOp'.walk
               /\ p \in DOMAIN remotePlayers'
               /\ isMoving(remotePlayers'[p])
               /\ remotePlayers'[p].tx = remotePlayers[p].tx
               /\ remotePlayers'[p].ty = remotePlayers[p].ty
               /\ remotePlayers'[p].x = remotePlayers[p].x
               /\ remotePlayers'[p].y = remotePlayers[p].y]_vars

C11_Witness ==
    /\ lastOp.op = "update"
    /\ lastOp.walk = {}
    /\ "A" \in DOMAIN remotePlayers
    /\ isMoving(remotePlayers["A"])
    /\ getPlayerState("A") # <<>>
    /\ Dist2(remotePlayers["A"].tx, remotePlayers["A"].ty,
             getPlayerState("A")[1].x, getPlayerState("A")[1].y)
          > JitterThreshold * JitterThreshold
    /\ Dist2(remotePlayers["A"].x, remotePlayers["A"].y,
             getPlayerState("A")[1].x, getPlayerState("A")[1].y)
          > JitterThreshold * JitterThreshold

\* C12: the remote-actor map never holds the local participant's id, though the
\* local join reaches the scene's join callback, and a reconciliation tick calls
\* neither walkTo nor playWave on the local actor and leaves it as it is.
C12_LocalExclusion ==
    [][/\ Local \notin DOMAIN remotePlayers'
       /\ liveChars'[Local] = 0
       /\ lastOp'.op = "update"
             => /\ Local \notin (lastOp'.walk \cup lastOp'.wave)
                /\ localPlayer' = localPlayer]_vars

C12_Witness ==
    /\ lastOp.op = "update"
    /\ Count(joinLog[SceneH], Local) = 1
    /\ svc[Local].pos # NoPos
    /\ "A" \in lastOp.walk
    /\ Local \notin DOMAIN remotePlayers

\* the render actor of p stands idle within the threshold of (x, y)
AtRestNear(p, x, y) ==
    /\ p \in DOMAIN remotePlayers
    /\ ~isMoving(remotePlayers[p])
    /\ getAction(remotePlayers[p]) = IDLE
    /\ Dist2(remotePlayers[p].x, remotePlayers[p].y, x, y)
          <= JitterThreshold * JitterThreshold

\* C13: in a fresh session, once "A" has published the position (10,20),
\* getPlayerState("A") reports (10,20), and with no further publish the local
\* render actor of "A" eventually stands idle within the threshold of (10,20).
C13_Convergence ==
    /\ [](svc["A"].pos = <<10, 20>>
            => /\ getPlayerState("A") # <<>>
               /\ getPlayerState("A")[1].x = 10
               /\ getPlayerState("A")[1].y = 20)
    /\ (svc["A"].pos = <<10, 20>>) ~> AtRestNear("A", 10, 20)

C13_Witness ==
    /\ lastOp.op = "tweenComplete"
    /\ lastOp.id = "A"
    /\ svc["A"].pos = <<10, 20>>
    /\ remotePlayers["A"].x = 10
    /\ remotePlayers["A"].y = 20
    /\ AtRestNear("A", 10, 20)

\* C14: init() called again after an init() that succeeded calls no connect,
\* installs no second join subscription and no second RPC handler, and leaves
\* the membership map, the registered handlers and every other field as they are.
C14_InitIdempotent ==
    [][(lastOp'.op = "init" /\ initialized)
          => /\ coin' = coin
             /\ awaiting' = awaiting
             /\ initialized'
             /\ joinSubs' = joinSubs
             /\ rpcHandlers' = rpcHandlers
             /\ players' = players
             /\ joinCallbacks' = joinCallbacks
             /\ leaveCallbacks' = leaveCallbacks
             /\ UNCHANGED <<svc, quitHooks, joinLog, leaveLog, remotePlayers>>]_vars

C14_Witness ==
    /\ lastOp.op = "init"
    /\ initialized
    /\ coin = "ok"
    /\ joinSubs = 1
    /\ rpcHandlers = 1
    /\ Len(players) >= 2
    /\ SceneH \in Range(joinCallbacks)
    /\ 1 \in Range(leaveCallbacks)

\* C15: getPlayerState(id), for an id present, absent or with unpublished fields
\* that are default-filled, and getAllPlayerStates() leave the membership map
\* and every participant's published fields unchanged.
C15_ReadsDoNotMutate ==
    [][lastOp'.op \in {"getPlayerState", "getAllPlayerStates"}
          => /\ players' = players
             /\ svc' = svc
             /\ quitHooks' = quitHooks]_vars

C15_Witness ==
    /\ lastOp.op = "getPlayerState"
    /\ lastRead.res # <<>>
    /\ lastRead.res[1].action = IDLE
    /\ lastRead.res[1].actionTime = now
    /\ svc[lastOp.id].action = Undefined
    /\ svc[lastOp.id].actionTime = NoTime
    /\ svc[lastOp.id].pos # NoPos

\* C16: getPlayerState(id) returns null and raises nothing for every id that is
\* not in the membership map, never present or departed.
C16_UnknownIsNull ==
    [][(lastOp'.op = "getPlayerState" /\ lastOp'.id \notin Range(players))
          => /\ lastRead'.id = lastOp'.id
             /\ lastRead'.res = <<>>
             /\ ~lastOp'.threw]_vars

C16_Witness ==
    /\ lastOp.op = "getPlayerState"
    /\ lastOp.id = "A"
    /\ hist.quit
    /\ "A" \notin Range(players)
    /\ Local \in Range(players)
    /\ lastRead.res = <<>>

\* C19: getAllPlayerStates() holds exactly one entry for each id in the
\* membership map and none for any other id, and each entry is what
\* getPlayerState of its id returns in the same state.
C19_SnapshotExact ==
    /\ Len(getAllPlayerStates) = Len(players)
    /\ \A p \in Ids :
          Cardinality({i \in 1..Len(getAllPlayerStates) : getAllPlayerStates[i].id = p})
             = IF p \in Range(players) THEN 1 ELSE 0
    /\ \A i \in 1..Len(getAllPlayerStates) :
          <<getAllPlayerStates[i]>> = getPlayerState(getAllPlayerStates[i].id)
    /\ lastOp.op = "getAllPlayerStates" => lastRead.res = getAllPlayerStates

C19_Witness ==
    /\ lastOp.op = "getAllPlayerStates"
    /\ Len(lastRead.res) = 2
    /\ lastRead.res[1].id # lastRead.res[2].id
    /\ svc["A"].pos # NoPos

\* C17: a setLocalState call carrying only a position sets the local published
\* position and leaves the published activity and its timestamp as they are; a
\* call carrying only an activity sets the activity and its timestamp and
\* leaves the published position as it is; neither touches another participant.
C17_PartialMerge ==
    [][lastOp'.op = "setLocalState"
          => /\ \A p \in Ids \ {Local} : svc'[p] = svc[p]
             /\ lastOp'.id = "pos"
                   => /\ svc'[Local].action = svc[Local].action
                      /\ svc'[Local].actionTime = svc[Local].actionTime
                      /\ myPlayerDefined => svc'[Local].pos \in PublishPosSet
             /\ lastOp'.id = "action"
                   => /\ svc'[Local].pos = svc[Local].pos
                      /\ myPlayerDefined
                            => /\ svc'[Local].action \in PublishActionSet
                               /\ svc'[Local].actionTime = now
             /\ lastOp'.id = "none" => svc'[Local] = svc[Local]]_vars

C17_Witness ==
    /\ lastOp.op = "setLocalState"
    /\ lastOp.id = "pos"
    /\ svc[Local].pos = <<30, 40>>
    /\ svc[Local].action = WAVING
    /\ svc[Local].actionTime < now

\* C18: setLocalState called while init() has not resolved (the service then
\* has no local participant object) changes no state, publishes nothing and
\* raises nothing.
C18_PublishBeforeInit ==
    [][(lastOp'.op = "setLocalState" /\ coin # "ok")
          => /\ svc' = svc
             /\ ~lastOp'.threw
             /\ UNCHANGED netVars
             /\ UNCHANGED <<now, lastRead>>]_vars

C18_Witness ==
    /\ lastOp.op = "setLocalState"
    /\ lastOp.id = "both"
    /\ coin = "pending"
    /\ ~initialized
    /\ svc[Local] = FreshState

\* C20: in a reconciliation tick no wave is triggered on a remote actor that is
\* moving, be it from an earlier walk or from one started in the same tick,
\* even when the reported activity is waving.
C20_MovementSuppressesWave ==
    [][\A p \in (DOMAIN remotePlayers) \cap (DOMAIN remotePlayers') :
         (lastOp'.op = "update" /\ isMoving(remotePlayers'[p]))
            => p \notin lastOp'.wave]_vars

\* C21: while the wave of a remote actor is in flight (started and not yet
\* completed), a reconciliation tick never calls playWave on that actor again,
\* whatever positions and activities are reported.
C21_NoPreemption ==
    [][\A p \in DOMAIN remotePlayers :
         (lastOp'.op = "update" /\ waveCanComplete(remotePlayers[p]))
            => p \notin lastOp'.wave]_vars

\* C22: a completed walk and a completed wave leave the actor idle, and with
\* every pending completion delivered an actor is idle again and again: it
\* never stays walking or waving forever.
C22_ReturnsToIdle ==
    /\ []((lastOp.op \in {"tweenComplete", "waveComplete"} /\ lastOp.id = Local)
            => getAction(localPlayer[1]) = IDLE)
    /\ []<>(localPlayer = <<>> \/ getAction(localPlayer[1]) = IDLE)

C24_TransientBroadcast ==
    [][/\ lastOp'.op = "broadcastAction"
             => /\ rpcOut' = rpcOut + (IF initialized THEN 1 ELSE 0)
                /\ actionLog' = actionLog
                /\ rpcIn' = rpcIn
       /\ lastOp'.op = "rpcDeliver"
             => /\ rpcIn # <<>>
                /\ Head(rpcIn)[1] # Local
                /\ rpcIn' = Tail(rpcIn)
                /\ \A h \in Probes :
                      actionLog'[h] = IF h \in Range(actionCallbacks)
                                      THEN Append(actionLog[h], Head(rpcIn))
                                      ELSE actionLog[h]
       /\ lastOp'.op # "rpcDeliver" => actionLog' = actionLog
       /\ rpcOut' # rpcOut => lastOp'.op = "broadcastAction"]_vars

C24_Witness ==
    /\ lastOp.op = "rpcDeliver"
    /\ lastOp.id = "A"
    /\ rpcOut = 1
    /\ actionLog[1] = <<<<"A", WAVING>>>>
    /\ rpcIn # <<>>

\* C25: once the session has ended and init() has been called again, the
\* membership map holds no entry of the ended session: it holds only the
\* participants whose join was reported after that call, of which there is none
\* before a new join subscription exists.
C25_FreshSessionOnReconnect ==
    [][(hist.lost /\ lastOp'.op = "init") => players' = <<>>]_vars

\* C26: after the local participant has waved and the wave has completed, its
\* published activity, still waving at the completion, returns to idle with no
\* further input.
C26_PublisherRevertsToIdle ==
    (/\ lastOp.op = "waveComplete"
     /\ lastOp.id = Local
     /\ svc[Local].action = WAVING) ~> (svc[Local].action = IDLE)

\* no promise returned by walkTo or playWave on the actor is unresolved
PromisesSettled(c) == c.orphans = 0 /\ ~isMoving(c) /\ c.wave = 0

\* C27: every promise returned by walkTo or playWave is resolved in the end,
\* also that of a walk superseded by a later walkTo: again and again the local
\* actor has no unresolved promise.
C27_PromisesResolve ==
    []<>(localPlayer = <<>> \/ PromisesSettled(localPlayer[1]))

C29_OverlappingInit ==
    [][/\ joinSubs' <= 1
       /\ rpcHandlers' <= 1
       /\ lastOp'.op = "join"
             => \A h \in Handlers : Len(joinLog'[h]) <= Len(joinLog[h]) + 1]_vars

\* C30: when the join of a participant has been reported twice and it then
\* departs once, each registered leave handler is invoked exactly once for
\* that departure.
C30_DuplicateJoinOneLeave ==
    [][\A p \in Remotes :
         (Departs(p) /\ quitHooks[p] >= 2)
            => \A h \in Range(leaveCallbacks) : leaveLog'[h] = Append(leaveLog[h], p)]_vars

\* C31: isConnected() returns true only if the service join subscription and
\* the 'action' RPC handler have both been installed, also when a statement of
\* init() failed after the connect call had succeeded.
C31_ConnectedMeansSubscribed ==
    (lastOp.op = "isConnected" /\ lastRead.res = <<TRUE>>)
       => (joinSubs >= 1 /\ rpcHandlers >= 1)

\* C32: reconciliation calls walkTo on a remote actor only toward a position
\* its participant has published; the actor of a participant that has published
\* no position stays at its spawn position.
C32_NoWalkToDefault ==
    [][lastOp'.op = "update"
         => \A p \in lastOp'.walk : svc[p].pos # NoPos]_vars

\* C33: once the scene has subscribed, after every join and leave event the
\* ids having a remote render actor are the ids of the membership map minus
\* the local participant's id.
C33_ActorsMirrorMembership ==
    SceneH \in Range(joinCallbacks)
       => DOMAIN remotePlayers = Range(players) \ {Local}

C33_Witness ==
    /\ SceneH \in Range(joinCallbacks)
    /\ lastOp.op = "quit"
    /\ lastOp.id = "A"
    /\ Range(players) = {Local, "B"}
    /\ DOMAIN remotePlayers = {"B"}

\* the Characters in the scene: the local actor and the remote actors
Characters ==
    {localPlayer[i] : i \in DOMAIN localPlayer}
       \cup {remotePlayers[p] : p \in DOMAIN remotePlayers}

\* C34: for every Character, isMoving() holds only if getAction() is walking,
\* and a Character that neither moves nor has a wave pending has getAction()
\* idle.
C34_ActivityMatchesMotion ==
    \A c \in Characters :
       /\ isMoving(c) => getAction(c) = WALKING
       /\ (~isMoving(c) /\ c.wave = 0) => getAction(c) = IDLE

\* the service state at the start of the handlePlayerJoin of a join step for p:
\* the joining participant's fields are those the service holds for it
AtJoin(p) == IF p = Local THEN svc ELSE [svc EXCEPT ![p] = svc'[p]]

\* C35: whenever a join handler is invoked for id P, getPlayerState(P) is
\* present and equals the state passed to the handler; whenever a leave handler
\* is invoked for P, getPlayerState(P) is absent.
C35_HandlerOrdering ==
    [][/\ lastOp'.op = "join"
          => LET p == lastOp'.id
                 w0 == [svc |-> AtJoin(p), rp |-> remotePlayers, lc |-> liveChars]
                 vs == JoinViews(joinCallbacks, w0, players', localPlayerId,
                                 localPlayer, p, PlayerStateIn(players', w0.svc, now, p))
             IN \A i \in DOMAIN vs : vs[i].read # <<>> /\ vs[i].read = vs[i].passed
       /\ \A p \in Remotes :
            (Departs(p) /\ leaveCallbacks # <<>>)
               => PlayerStateIn(players', svc', now, p) = <<>>]_vars

\* the actionTime the client of p set together with the activity this client
\* holds for p
PublishedTimeOf(p) ==
    IF timeInFlight[p] # <<>> THEN timeInFlight[p][1] ELSE svc[p].actionTime

\* C36: a read of a remote participant whose activity has been published
\* returns that activity with the actionTime of the same publish, never with
\* that of an earlier publish or a default-filled one.
C36_AtomicActivity ==
    (/\ lastOp.op = "getPlayerState"
     /\ lastRead.id \in Remotes
     /\ lastRead.res # <<>>
     /\ lastRead.src.action # Undefined)
       => lastRead.res[1].actionTime = PublishedTimeOf(lastRead.id)

\* C37: a local wave request made while the local actor moves changes neither
\* the actor nor the published state, and the published activity of the local
\* participant becomes waving only by a request made while the actor did not
\* move.
C37_WaveDroppedWhileMoving ==
    [][/\ (lastOp'.op = "performAction" /\ isMoving(localPlayer[1]))
            => (localPlayer' = localPlayer /\ svc' = svc)
       /\ (svc[Local].action # WAVING /\ svc'[Local].action = WAVING)
            => (lastOp'.op = "performAction" /\ ~isMoving(localPlayer[1]))]_vars

C37_Witness ==
    /\ lastOp.op = "performAction"
    /\ coin = "ok"
    /\ isMoving(localPlayer[1])
    /\ getAction(localPlayer[1]) = WALKING
    /\ svc[Local].pos # NoPos
    /\ svc[Local].action # WAVING

\* the walkable band of moveLocalPlayer
WalkableY == (groundY - 60)..(groundY + 20)

\* C38: every position the local client has published, by moveLocalPlayer or
\* by the self-sync, has its y coordinate within [groundY - 60, groundY + 20].
C38_PublishedYInBand ==
    svc[Local].pos # NoPos => svc[Local].pos[2] \in WalkableY

C38_Witness ==
    /\ lastOp.op = "join"
    /\ lastOp.id = Local
    /\ SceneH \in Range(joinCallbacks)
    /\ localPlayer[1].y = groundY - 60
    /\ svc[Local].pos = <<localPlayer[1].x, groundY - 60>>

====
